---- MODULE Spec2Model ----
(***************************************************************************)
(* The Weakest Hint: the question generator of app.py (create_questions),  *)
(* the quiz session the routes of app.py keep, the description cleaner of  *)
(* description_creator.py (clean_description) and the offline batch driver *)
(* (generate_descriptions_for_all_games).  Each piece has its own          *)
(* specification (SpecQuestions, SpecSession, SpecClean, SpecDriver /      *)
(* SpecDriverRun), and Spec is their union.  A component that is not       *)
(* running has its position at "off".                                      *)
(***************************************************************************)
EXTENDS Integers, Sequences, FiniteSets, TLC

VARIABLES
    \* ---- app.py: create_questions ----
    games,            \* the catalog load_games() returns
    available_games,  \* the pool create_questions pops from
    random_game,      \* the game popped in the latest round
    num_questions,    \* len(questions)
    correct_answers,  \* the correct_answer values of the questions appended so far
    last_question,    \* the question record appended last
    qpc,              \* "off", "run", "done" (returned), "error" (raised)
    qerr,             \* the exception create_questions raised, "" if none
    \* ---- description_creator.py: clean_description ----
    raw,              \* the text handed to clean_description
    cleaned,          \* clean_description(raw)
    recleaned,        \* clean_description(cleaned)
    cpc,              \* "off", "input", "cleaned", "recleaned"
    \* ---- description_creator.py: generate_descriptions_for_all_games ----
    file,             \* game_descriptions.json on disk
    driver_descriptions, \* the driver's descriptions dict
    game_idx,         \* position of the for loop in games
    game_descriptions, \* the list collected for the current game
    retry_count,      \* consecutive fallback results
    dpc,              \* "off", "start", "loop", "collect", "save", "dump",
                      \* "finished", "crashed", "killed"
    \* ---- history of the driver, read by its properties ----
    initial_file,     \* the file as the current run found it
    called,           \* titles the service was called for in the current run
    outcomes,         \* results of the calls made for the current game
    completed,        \* titles whose "Completed" line was reached, in any run
    restarts,         \* how often the driver was started again after a kill
    \* ---- app.py: the quiz session (the routes' session dict) ----
    session_keys,     \* the keys the session dict holds
    CURRENT_QUESTION_IDX, \* session['CURRENT_QUESTION_IDX'], 0 while the key is absent
    SCORE,            \* session['SCORE'], 0 while the key is absent
    QUESTIONS,        \* session['QUESTIONS'], <<>> while the key is absent
    last_request      \* the request served last: its route, its choice_idx, its outcome

qvars == <<games, available_games, random_game, num_questions, correct_answers,
          last_question, qpc, qerr>>
cvars == <<raw, cleaned, recleaned, cpc>>
dvars == <<file, driver_descriptions, game_idx, game_descriptions, retry_count, dpc,
          initial_file, called, outcomes, completed, restarts>>
svars == <<session_keys, CURRENT_QUESTION_IDX, SCORE, QUESTIONS, last_request>>
vars == <<qvars, cvars, dvars, svars>>

(***************************************************************************)
(* Sequence helpers: Python's list.pop(idx), list comprehension filter.    *)
(***************************************************************************)
\* a pop that returns the element and leaves the list as it was
PopKeeps(s, idx) == s

Pop(s, idx) == [k \in 1..(Len(s) - 1) |-> IF k < idx THEN s[k] ELSE s[k + 1]]

Range(s) == {s[k] : k \in 1..Len(s)}

Min(a, b) == IF a < b THEN a ELSE b

(***************************************************************************)
(* app.py: the question generator                                          *)
(***************************************************************************)

\* range(5): the number of rounds, and of questions returned
NumQuestions == 5

\* entries the batch driver collects for a title; the table the quiz loads
\* holds that many for every title
DescPerGame == 5

\* largest catalog explored
MaxCatalog == 7

\* A catalog of a games of genre "A" followed by b games of genre "B";
\* titles are 1..a+b, so they are unique.
MkCatalog(a, b) ==
    [k \in 1..(a + b) |-> [game |-> k, genre |-> IF k <= a THEN "A" ELSE "B"]]

\* The catalogs explored: the bigger genre first (the two genres are
\* interchangeable), at most MaxCatalog games.
Catalogs ==
    {MkCatalog(ab[1], ab[2]) :
        ab \in {x \in (0..MaxCatalog) \X (0..MaxCatalog) :
                   x[1] >= x[2] /\ x[1] + x[2] <= MaxCatalog}}

\* game_descriptions.json as loaded at import: 5 entries for every title
descriptions == [t \in 1..MaxCatalog |-> [k \in 1..DescPerGame |-> <<t, k>>]]

\* [g for g in available_games if g['genre'] == game_genre]
SameGenre(pool, game_genre) == SelectSeq(pool, LAMBDA g : g.genre = game_genre)

\* a filter that forgets the genre test
DiffGenreAll(pool, game_genre) == pool

\* [g for g in available_games if g['genre'] != game_genre]
DiffGenre(pool, game_genre) == SelectSeq(pool, LAMBDA g : g.genre # game_genre)

\* random.shuffle(all_choices): any of the 24 orders
ShuffleOrders == {p \in [1..4 -> 1..4] : \A x, y \in 1..4 : x # y => p[x] # p[y]}

Shuffled(s, p) == [k \in 1..4 |-> s[p[k]]]

NoGame == [game |-> 0, genre |-> ""]

NoQuestion == [description |-> <<>>, correct_answer |-> 0, choices |-> <<>>]

NoFile == [state |-> "absent", table |-> <<>>]

DriverOff ==
    /\ file = NoFile
    /\ driver_descriptions = <<>>
    /\ game_idx = 0
    /\ game_descriptions = <<>>
    /\ retry_count = 0
    /\ dpc = "off"
    /\ initial_file = NoFile
    /\ called = {}
    /\ outcomes = <<>>
    /\ completed = {}
    /\ restarts = 0

NoRequest == [route |-> "off", choice_idx |-> 0, status |-> ""]

SessionOff ==
    /\ session_keys = {}
    /\ CURRENT_QUESTION_IDX = 0
    /\ SCORE = 0
    /\ QUESTIONS = <<>>
    /\ last_request = NoRequest

CleanOff ==
    /\ raw = <<>>
    /\ cleaned = <<>>
    /\ recleaned = <<>>
    /\ cpc = "off"

InitQuestions ==
    /\ CleanOff
    /\ DriverOff
    /\ SessionOff
    /\ games \in Catalogs
    /\ available_games = games
    /\ random_game = NoGame
    /\ num_questions = 0
    /\ correct_answers = {}
    /\ last_question = NoQuestion
    /\ qpc = "run"
    /\ qerr = ""

QuestionsOff ==
    /\ games = <<>>
    /\ available_games = <<>>
    /\ random_game = NoGame
    /\ num_questions = 0
    /\ correct_answers = {}
    /\ last_question = NoQuestion
    /\ qpc = "off"
    /\ qerr = ""

Raise(kind) ==
    /\ qpc' = "error"
    /\ qerr' = kind

\* line 39: random.randint(0, -1) on an empty pool
RoundEmptyPool ==
    /\ qpc = "run"
    /\ Len(available_games) = 0
    /\ Raise("ValueError")
    /\ UNCHANGED <<games, available_games, random_game, num_questions, correct_answers,
                   last_question, cvars, dvars, svars>>

\* lines 39-53: no same-genre game and no different-genre game is left, so
\* random.choice(diff_genre_games) is handed an empty list
RoundNoDecoy ==
    /\ qpc = "run"
    /\ \E idx \in 1..Len(available_games) :
         LET popped == available_games[idx]
             pool == Pop(available_games, idx)
         IN /\ SameGenre(pool, popped.genre) = <<>>
            /\ DiffGenre(pool, popped.genre) = <<>>
            /\ random_game' = popped
            /\ available_games' = pool
    /\ Raise("IndexError")
    /\ UNCHANGED <<games, num_questions, correct_answers, last_question, cvars, dvars, svars>>

\* lines 39-62: fewer than two different-genre games are left, so the first
\* or the second random.randint(0, len(diff_genre_games) - 1) has an empty range
RoundTooFewDiff ==
    /\ qpc = "run"
    /\ \E idx \in 1..Len(available_games) :
         LET popped == available_games[idx]
             pool == Pop(available_games, idx)
             same == SameGenre(pool, popped.genre)
             diff == DiffGenre(pool, popped.genre)
         IN /\ same # <<>> \/ diff # <<>>
            /\ Len(diff) < 2
            /\ random_game' = popped
            /\ available_games' = pool
    /\ Raise("ValueError")
    /\ UNCHANGED <<games, num_questions, correct_answers, last_question, cvars, dvars, svars>>

\* lines 39-76: one full round; after the 5th, line 78 returns the list
RoundEmit ==
    /\ qpc = "run"
    /\ \E idx \in 1..Len(available_games) :
         LET popped == available_games[idx]
             pool == Pop(available_games, idx)
             game_title == popped.game
             same_genre_games == SameGenre(pool, popped.genre)
             diff_genre_games == DiffGenre(pool, popped.genre)
             candidates == IF same_genre_games # <<>> THEN same_genre_games
                           ELSE diff_genre_games
         IN /\ Len(diff_genre_games) >= 2
            /\ \E c \in 1..Len(candidates), idx1 \in 1..Len(diff_genre_games),
                  idx2 \in 1..(Len(diff_genre_games) - 1),
                  d \in 1..Len(descriptions[game_title]), p \in ShuffleOrders :
                 LET same_genre_choice == candidates[c].game
                     first_choice == diff_genre_games[idx1]
                     second_choice == Pop(diff_genre_games, idx1)[idx2]
                     all_choices == <<game_title, same_genre_choice,
                                      first_choice.game, second_choice.game>>
                 IN last_question' = [description |-> descriptions[game_title][d],
                                      correct_answer |-> game_title,
                                      choices |-> Shuffled(all_choices, p)]
            /\ random_game' = popped
            /\ available_games' = pool
            /\ correct_answers' = correct_answers \cup {game_title}
    /\ num_questions' = num_questions + 1
    /\ qpc' = IF num_questions + 1 = NumQuestions THEN "done" ELSE "emitted"
    /\ UNCHANGED <<games, qerr, cvars, dvars, svars>>

\* line 37: the loop goes to its next iteration; the locals of the finished
\* iteration are dead (every one is assigned again before it is read)
NextIteration ==
    /\ qpc = "emitted"
    /\ qpc' = "run"
    /\ random_game' = NoGame
    /\ last_question' = NoQuestion
    /\ UNCHANGED <<games, available_games, num_questions, correct_answers, qerr, cvars, dvars, svars>>

NextQuestions ==
    RoundEmptyPool \/ RoundNoDecoy \/ RoundTooFewDiff \/ RoundEmit \/ NextIteration

SpecQuestions == InitQuestions /\ [][NextQuestions]_vars

(***************************************************************************)
(* Properties of the question generator                                    *)
(***************************************************************************)
GenreOf(title) == (CHOOSE g \in Range(games) : g.game = title).genre

Spans2Genres == Cardinality({games[k].genre : k \in 1..Len(games)}) >= 2

\* how many games of the pool have another genre than the popped game
DiffCount == Cardinality({k \in 1..Len(available_games) :
                            available_games[k].genre # random_game.genre})

\* a question record with 4 pairwise distinct choices, one of them the answer
WellFormedQuestion(q) ==
    /\ Len(q.choices) = 4
    /\ \A x, y \in 1..Len(q.choices) : x # y => q.choices[x] # q.choices[y]
    /\ Cardinality({x \in 1..Len(q.choices) : q.choices[x] = q.correct_answer}) = 1

\* choices of question q whose genre differs from the correct answer's
DiffDecoys(q) == {x \in 1..Len(q.choices) :
                    GenreOf(q.choices[x]) # GenreOf(q.correct_answer)}

\* C1: whenever create_questions returns, a question of the returned list (here
\* the one appended in the 5th round) has exactly 4 pairwise distinct choices
\* holding correct_answer exactly once, also when the "same-genre" decoy was
\* drawn from the different-genre games.
C1_ChoicesDistinct == qpc = "done" => WellFormedQuestion(last_question)

\* C2: whenever create_questions returns, it has appended 5 questions whose
\* correct_answer values are pairwise distinct (5 questions, 5 different values).
C2_CorrectAnswersDistinct ==
    qpc = "done" => num_questions = NumQuestions
                    /\ Cardinality(correct_answers) = NumQuestions

C2_Returned == qpc = "done" /\ num_questions = NumQuestions

\* C3: on a catalog of exactly 5 games spanning at least 2 genres (the
\* description table holds 5 entries for every title) create_questions never
\* raises: it completes its 5 rounds.
C3_FiveGamesComplete ==
    (Len(games) = 5 /\ Spans2Genres) => qpc # "error"

\* C4 as claimed: a round that leaves fewer than two different-genre games
\* after popping the correct game ends in InsufficientCatalogError.
C4_InsufficientCatalogError ==
    (random_game # NoGame /\ DiffCount < 2)
        => (qpc = "error" /\ qerr = "InsufficientCatalogError")

\* C4 as amended: such a round ends in an exception and returns nothing, the
\* exception being the library's own (IndexError from random.choice when the
\* pool is empty, ValueError from random.randint otherwise); and every question
\* emitted has at least two decoys of another genre than its correct answer.
C4_RaisesLibraryError ==
    /\ (random_game # NoGame /\ DiffCount < 2)
          => /\ qpc = "error"
             /\ qerr = IF available_games = <<>> THEN "IndexError" ELSE "ValueError"
    /\ last_question # NoQuestion => Cardinality(DiffDecoys(last_question)) >= 2

C4_RoundFailed ==
    /\ qpc = "error"
    /\ random_game # NoGame
    /\ DiffCount = 1
    /\ qerr = "ValueError"
    /\ num_questions >= 1

(***************************************************************************)
(* description_creator.py: clean_description.  A string is the sequence of *)
(* its characters.                                                         *)
(***************************************************************************)
LowerCase == <<"a", "b", "c", "d", "e", "f", "g", "h", "i", "j", "k", "l", "m",
               "n", "o", "p", "q", "r", "s", "t", "u", "v", "w", "x", "y", "z">>

UpperCase == <<"A", "B", "C", "D", "E", "F", "G", "H", "I", "J", "K", "L", "M",
               "N", "O", "P", "Q", "R", "S", "T", "U", "V", "W", "X", "Y", "Z">>

IndexIn(alphabet, c) ==
    IF \E k \in 1..Len(alphabet) : alphabet[k] = c
    THEN CHOOSE k \in 1..Len(alphabet) : alphabet[k] = c
    ELSE 0

\* str.lower() and str.upper(), one character
LowerChar(c) == IF IndexIn(UpperCase, c) > 0 THEN LowerCase[IndexIn(UpperCase, c)] ELSE c

UpperChar(c) == IF IndexIn(LowerCase, c) > 0 THEN UpperCase[IndexIn(LowerCase, c)] ELSE c

Lower(w) == [k \in 1..Len(w) |-> LowerChar(w[k])]

\* str.capitalize(): first character upper case, the rest lower case
Capitalize(w) == [k \in 1..Len(w) |-> IF k = 1 THEN UpperChar(w[k]) ELSE LowerChar(w[k])]

\* what str.split() and str.strip() take for whitespace
Whitespace == {" ", "\t", "\n", "\r"}

\* s.startswith(prefix) at position k
MatchesAt(s, k, sep) ==
    /\ k + Len(sep) - 1 <= Len(s)
    /\ \A j \in 1..Len(sep) : s[k + j - 1] = sep[j]

\* s.split(sep)[0]: the text before the first occurrence of sep
SplitFirst(s, sep) ==
    IF \E k \in 1..Len(s) : MatchesAt(s, k, sep)
    THEN LET first == CHOOSE k \in 1..Len(s) :
                         /\ MatchesAt(s, k, sep)
                         /\ \A j \in 1..(k - 1) : ~MatchesAt(s, j, sep)
         IN SubSeq(s, 1, first - 1)
    ELSE s

\* s.replace(c, '')
RemoveChar(s, c) == SelectSeq(s, LAMBDA x : x # c)

\* lines 47-49: drop one pair of wrapping quotation marks
Wrapped(s, q) == Len(s) >= 1 /\ s[1] = q /\ s[Len(s)] = q

StripQuotes(s) ==
    IF Wrapped(s, "\"") \/ Wrapped(s, "'") THEN SubSeq(s, 2, Len(s) - 1) ELSE s

\* str.split(): the maximal runs of non-whitespace characters
RECURSIVE SplitWords(_)
SplitWords(s) ==
    IF s = <<>> THEN <<>>
    ELSE IF s[1] \in Whitespace THEN SplitWords(Tail(s))
    ELSE LET stop == IF \E k \in 1..Len(s) : s[k] \in Whitespace
                     THEN CHOOSE k \in 1..Len(s) :
                            /\ s[k] \in Whitespace
                            /\ \A j \in 1..(k - 1) : s[j] \notin Whitespace
                     ELSE Len(s) + 1
         IN <<SubSeq(s, 1, stop - 1)>> \o SplitWords(SubSeq(s, stop, Len(s)))

\* a slice that keeps every word
TakeAll(words, n) == words

\* words[:n]
Take(words, n) == SubSeq(words, 1, Min(n, Len(words)))

\* str.rstrip(chars)
RECURSIVE RStrip(_, _)
RStrip(w, chars) ==
    IF w # <<>> /\ w[Len(w)] \in chars THEN RStrip(SubSeq(w, 1, Len(w) - 1), chars) ELSE w

\* str.strip()
RECURSIVE LStrip(_, _)
LStrip(w, chars) ==
    IF w # <<>> /\ w[1] \in chars THEN LStrip(Tail(w), chars) ELSE w

Strip(s) == LStrip(RStrip(s, Whitespace), Whitespace)

\* line 39
bad_endings == {<<"a">>, <<"a", "n">>, <<"t", "h", "e">>, <<"a", "n", "d">>,
                <<"o", "r">>, <<"t", "o">>, <<"a", "t">>, <<"o", "n">>, <<"i", "n">>,
                <<"w", "i", "t", "h">>, <<"f", "o", "r">>, <<"b", "y">>, <<"o", "f">>}

\* the least number of words kept (lines 57 and 61)
MinWords == 4

\* the most words kept (line 53)
MaxKept == 7

IsBadEnding(w) == RStrip(Lower(w), {",", ".", "!", "?"}) \in bad_endings

\* a loop that pops nothing
KeepEndings(words) == words

\* lines 57-58: pop trailing stop words while more than 4 words are left
RECURSIVE TrimEndings(_)
TrimEndings(words) ==
    IF Len(words) > MinWords /\ IsBadEnding(words[Len(words)])
    THEN TrimEndings(SubSeq(words, 1, Len(words) - 1))
    ELSE words

\* ' '.join(words)
RECURSIVE Join(_)
Join(words) ==
    IF words = <<>> THEN <<>>
    ELSE IF Len(words) = 1 THEN words[1]
    ELSE words[1] \o <<" ">> \o Join(Tail(words))

\* "Mystery game with secrets"
Fallback == <<"M", "y", "s", "t", "e", "r", "y", " ", "g", "a", "m", "e", " ",
              "w", "i", "t", "h", " ", "s", "e", "c", "r", "e", "t", "s">>

\* lines 42-49: the first line, its first sentence, stars and wrapping quotes removed
FirstSentence(description) ==
    StripQuotes(RemoveChar(SplitFirst(SplitFirst(description, <<"\n">>), <<".", " ">>), "*"))

\* lines 28-68
clean_description(description) ==
    LET words == TrimEndings(Take(SplitWords(FirstSentence(description)), MaxKept))
    IN IF Len(words) < MinWords THEN Fallback
       ELSE Strip(Join([k \in 1..Len(words) |->
                           IF k = 1 THEN Capitalize(words[k]) ELSE words[k]]))

(***************************************************************************)
(* The texts clean_description is applied to: up to MaxWords words, every  *)
(* two of them separated the same way, the whole wrapped or not.           *)
(***************************************************************************)
MaxWords == 8

\* a plain word, a stop word, a stop word in upper case ending a sentence
InputWords == {<<"x">>, <<"t", "h", "e">>, <<"O", "F", ".">>}

Separators == {<<" ">>, <<"\t">>, <<"\n">>}

\* what is put before and after the words
Wrappings == {<<>>, <<"\"">>, <<"'">>, <<"*">>}

RECURSIVE JoinWith(_, _)
JoinWith(words, sep) ==
    IF words = <<>> THEN <<>>
    ELSE IF Len(words) = 1 THEN words[1]
    ELSE words[1] \o sep \o JoinWith(Tail(words), sep)

Render(words, sep, wrap) ==
    wrap \o JoinWith(words, sep) \o wrap

\* the texts of at most max words
Inputs(max) ==
    {Render(ws, sep, wrap) :
        ws \in UNION {[1..n -> InputWords] : n \in 0..max},
        sep \in Separators, wrap \in Wrappings}

InitClean ==
    /\ QuestionsOff
    /\ DriverOff
    /\ SessionOff
    /\ raw \in Inputs(MaxWords)
    /\ cleaned = <<>>
    /\ recleaned = <<>>
    /\ cpc = "input"

\* generate_game_description, line 98: the service's text is cleaned
Clean ==
    /\ cpc = "input"
    /\ cleaned' = clean_description(raw)
    /\ cpc' = "cleaned"
    /\ UNCHANGED <<raw, recleaned, qvars, dvars, svars>>

\* the cleaned text is handed to clean_description again
Reclean ==
    /\ cpc = "cleaned"
    /\ recleaned' = clean_description(cleaned)
    /\ cpc' = "recleaned"
    /\ UNCHANGED <<raw, cleaned, qvars, dvars, svars>>

NextClean == Clean \/ Reclean

SpecClean == InitClean /\ [][NextClean]_vars

(***************************************************************************)
(* Properties of clean_description                                         *)
(***************************************************************************)
WordCount(s) == Len(SplitWords(s))

LastWord(s) == SplitWords(s)[WordCount(s)]

\* the last word, lower-cased and with trailing ',.!?' stripped, is a stop word
EndsInStopWord(s) ==
    /\ WordCount(s) >= 1
    /\ RStrip(Lower(LastWord(s)), {",", ".", "!", "?"}) \in bad_endings

HasQuoteOrStar(s) == \E k \in 1..Len(s) : s[k] \in {"\"", "'", "*"}

\* C5: whatever the text, clean_description returns a string of at least 4
\* and at most 7 whitespace-delimited words.
C5_WordCountBounded ==
    cpc \in {"cleaned", "recleaned"} => WordCount(cleaned) \in MinWords..MaxKept

\* an 8-word text was cut to 7 words
C5_Truncated ==
    /\ cpc = "cleaned"
    /\ WordCount(raw) = 8
    /\ WordCount(cleaned) = 7

\* C6: when the cleaned text does not end in a stop word and holds no quote
\* and no '*', cleaning it again returns it unchanged.
C6_Idempotent ==
    (cpc = "recleaned" /\ ~EndsInStopWord(cleaned) /\ ~HasQuoteOrStar(cleaned))
        => recleaned = cleaned

\* C7 as claimed: a result that is not the fallback phrase does not end in a
\* stop word.
C7_NoStopWordEnding ==
    (cpc = "cleaned" /\ cleaned # Fallback) => ~EndsInStopWord(cleaned)

\* C7 as amended: a result that is not the fallback phrase and has more than
\* 4 words does not end in a stop word (the loop stops popping at 4 words).
C7_NoStopWordEndingAbove4 ==
    (cpc = "cleaned" /\ cleaned # Fallback /\ WordCount(cleaned) > MinWords)
        => ~EndsInStopWord(cleaned)

\* a text of 6 words ending in a stop word was cleaned to 5 words
C7_StopWordPopped ==
    /\ cpc = "cleaned"
    /\ WordCount(raw) = 6
    /\ EndsInStopWord(raw)
    /\ WordCount(cleaned) = 5
    /\ ~EndsInStopWord(cleaned)

(***************************************************************************)
(* description_creator.py: the batch driver                                *)
(***************************************************************************)

\* games of the catalog the driver walks
MaxGames == 2

\* how often a killed driver is started again
MaxRestarts == 2

\* line 126
max_retries == 3

TitleNames == <<"g1", "g2", "g3", "g4", "g5", "g6">>

\* load_games(): the catalog, of which the driver reads the titles only
DriverGames == [k \in 1..MaxGames |-> [game |-> TitleNames[k]]]

Titles == {DriverGames[k].game : k \in 1..Len(DriverGames)}

\* what the text-generation service answers: a text that cleans to a
\* description, a text too short to keep, or an error
GoodText == <<"x", " ", "x", " ", "x", " ", "x", " ", "t", "h", "e">>

ShortText == <<"x", " ", "x">>

ServiceResponses ==
    {[error |-> FALSE, content |-> GoodText],
     [error |-> FALSE, content |-> ShortText],
     [error |-> TRUE, content |-> <<>>]}

\* lines 96-102: the cleaned answer, or the fallback phrase on an exception
generate_game_description(response) ==
    IF response.error THEN Fallback ELSE clean_description(response.content)

\* what line 130 can receive
ServiceResults == {generate_game_description(response) : response \in ServiceResponses}

\* descriptions[game_title] = game_descriptions
Put(table, title, list) ==
    [t \in (DOMAIN table) \cup {title} |-> IF t = title THEN list ELSE table[t]]

Truncated == [state |-> "truncated", table |-> <<>>]

OnDisk(table) == [state |-> "table", table |-> table]

\* the tables a run may find on disk: any set of titles, each holding no
\* entry, 3 entries or all 5
StoredLengths == {0, 3, DescPerGame}

StoredLists == {[j \in 1..n |-> clean_description(GoodText)] : n \in StoredLengths}

InitialFiles == {NoFile} \cup {OnDisk(t) : t \in UNION {[D -> StoredLists] : D \in SUBSET Titles}}

InitDriver ==
    /\ QuestionsOff
    /\ CleanOff
    /\ SessionOff
    /\ file \in InitialFiles
    /\ driver_descriptions = <<>>
    /\ game_idx = 0
    /\ game_descriptions = <<>>
    /\ retry_count = 0
    /\ dpc = "start"
    /\ initial_file = file
    /\ called = {}
    /\ outcomes = <<>>
    /\ completed = {}
    /\ restarts = 0

game_title == DriverGames[game_idx].game

\* lines 106-114: the table on disk is loaded, or {} when there is no file
Load ==
    /\ dpc = "start"
    /\ file.state # "truncated"
    /\ driver_descriptions' = IF file.state = "absent" THEN <<>> ELSE file.table
    /\ game_idx' = 1
    /\ dpc' = "loop"
    /\ UNCHANGED <<file, game_descriptions, retry_count, initial_file, called, outcomes,
                   completed, restarts, qvars, cvars, svars>>

\* lines 110-112: json.load of a file that holds no complete JSON text raises
\* JSONDecodeError, which line 113 does not catch
LoadFails ==
    /\ dpc = "start"
    /\ file.state = "truncated"
    /\ dpc' = "crashed"
    /\ UNCHANGED <<file, driver_descriptions, game_idx, game_descriptions, retry_count,
                   initial_file, called, outcomes, completed, restarts, qvars, cvars, svars>>

\* lines 116-122: a title that is a key of the table is skipped
Skip ==
    /\ dpc = "loop"
    /\ game_idx <= Len(DriverGames)
    /\ game_title \in DOMAIN driver_descriptions
    /\ game_idx' = game_idx + 1
    /\ UNCHANGED <<file, driver_descriptions, game_descriptions, retry_count, dpc,
                   initial_file, called, outcomes, completed, restarts, qvars, cvars, svars>>

\* lines 116-129: the collection for a title that is no key of the table begins
Begin ==
    /\ dpc = "loop"
    /\ game_idx <= Len(DriverGames)
    /\ game_title \notin DOMAIN driver_descriptions
    /\ game_descriptions' = <<>>
    /\ retry_count' = 0
    /\ outcomes' = <<>>
    /\ dpc' = "collect"
    /\ UNCHANGED <<file, driver_descriptions, game_idx, initial_file, called, completed,
                   restarts, qvars, cvars, svars>>

\* line 116: the catalog is exhausted
Finish ==
    /\ dpc = "loop"
    /\ game_idx > Len(DriverGames)
    /\ dpc' = "finished"
    /\ UNCHANGED <<file, driver_descriptions, game_idx, game_descriptions, retry_count,
                   initial_file, called, outcomes, completed, restarts, qvars, cvars, svars>>

\* a success that leaves the count of fallback results as it is
CallSuccessNoReset ==
    /\ dpc = "collect"
    /\ \E desc \in ServiceResults :
         /\ desc # Fallback
         /\ game_descriptions' = Append(game_descriptions, desc)
    /\ called' = called \cup {game_title}
    /\ outcomes' = Append(outcomes, "ok")
    /\ dpc' = IF Len(game_descriptions) + 1 < DescPerGame THEN "collect" ELSE "save"
    /\ UNCHANGED <<file, driver_descriptions, game_idx, retry_count, initial_file,
                   completed, restarts, qvars, cvars, svars>>

\* lines 129-132, 141-143: a call that returns a description; the loop goes on
\* while fewer than 5 are collected
CallSuccess ==
    /\ dpc = "collect"
    /\ \E desc \in ServiceResults :
         /\ desc # Fallback
         /\ game_descriptions' = Append(game_descriptions, desc)
    /\ retry_count' = 0
    /\ called' = called \cup {game_title}
    /\ outcomes' = Append(outcomes, "ok")
    /\ dpc' = IF Len(game_descriptions) + 1 < DescPerGame THEN "collect" ELSE "save"
    /\ UNCHANGED <<file, driver_descriptions, game_idx, initial_file, completed, restarts,
                   qvars, cvars, svars>>

\* lines 129-139: a call that returns the fallback phrase; the loop is left
\* at the max_retries-th in a row
CallFallback ==
    /\ dpc = "collect"
    /\ \E desc \in ServiceResults : desc = Fallback
    /\ retry_count' = retry_count + 1
    /\ called' = called \cup {game_title}
    /\ outcomes' = Append(outcomes, "fallback")
    /\ dpc' = IF retry_count + 1 >= max_retries THEN "save" ELSE "collect"
    /\ UNCHANGED <<file, driver_descriptions, game_idx, game_descriptions, initial_file,
                   completed, restarts, qvars, cvars, svars>>

\* lines 146-147: the list is stored under the title and the file is opened
\* for writing, which empties it
Save ==
    /\ dpc = "save"
    /\ driver_descriptions' = Put(driver_descriptions, game_title, game_descriptions)
    /\ file' = Truncated
    /\ dpc' = "dump"
    /\ UNCHANGED <<game_idx, game_descriptions, retry_count, initial_file, called, outcomes,
                   completed, restarts, qvars, cvars, svars>>

\* lines 148-151: the table is written out and closed; "Completed" is printed
\* and the loop goes to the next game
Dump ==
    /\ dpc = "dump"
    /\ file' = OnDisk(driver_descriptions)
    /\ completed' = completed \cup {game_title}
    /\ game_idx' = game_idx + 1
    /\ outcomes' = <<>>
    /\ dpc' = "loop"
    /\ UNCHANGED <<driver_descriptions, game_descriptions, retry_count, initial_file,
                   called, restarts, qvars, cvars, svars>>

\* the process is killed: what it held in memory is gone, the file stays
Kill ==
    /\ dpc \in {"start", "loop", "collect", "save", "dump"}
    /\ dpc' = "killed"
    /\ driver_descriptions' = <<>>
    /\ game_idx' = 0
    /\ game_descriptions' = <<>>
    /\ retry_count' = 0
    /\ outcomes' = <<>>
    /\ UNCHANGED <<file, initial_file, called, completed, restarts, qvars, cvars, svars>>

\* line 189: the driver is started again
Restart ==
    /\ dpc = "killed"
    /\ restarts < MaxRestarts
    /\ restarts' = restarts + 1
    /\ dpc' = "start"
    /\ initial_file' = file
    /\ called' = {}
    /\ UNCHANGED <<file, driver_descriptions, game_idx, game_descriptions, retry_count,
                   outcomes, completed, qvars, cvars, svars>>

\* one run, from start to end
NextRun == Load \/ Skip \/ Begin \/ Finish \/ CallSuccess \/ CallFallback \/ Save \/ Dump

\* runs, kills and restarts
NextDriver == NextRun \/ LoadFails \/ Kill \/ Restart

SpecDriver == InitDriver /\ [][NextDriver]_vars

\* The driver is one sequential loop of blocking calls and sleeps: while it is
\* not killed, its next step is taken.
SpecDriverRun == InitDriver /\ [][NextRun]_vars /\ WF_vars(NextRun)

(***************************************************************************)
(* app.py: the quiz session.  One browser session sends its requests one   *)
(* after the other; every route is one step.                               *)
(***************************************************************************)

\* the entries of all_choices: the title and its three decoys
NumChoices == 4

\* the choice_idx values explored are -MaxChoiceIdx..MaxChoiceIdx
MaxChoiceIdx == 5

\* Python's list[i] raises IndexError unless -len <= i < len
InRange(s, i) == -Len(s) <= i /\ i < Len(s)

\* Python's list[i]: i counts from 0, a negative i counts from the end
Item(s, i) == IF i >= 0 THEN s[i + 1] ELSE s[Len(s) + i + 1]

\* session.get(key, 0)
SessionGet(key, value) == IF key \in session_keys THEN value ELSE 0

\* the decoys of a question before the shuffle: three titles, or (the pool
\* being short of same-genre games) one title drawn twice
DecoyLists ==
    {<<NumQuestions + 1, NumQuestions + 2, NumQuestions + 3>>,
     <<NumQuestions + 1, NumQuestions + 1, NumQuestions + 2>>}

\* the question of round k: the popped title is k, the shuffle has put it at
\* position pos and the decoys, in their order, at the other positions
ReturnedQuestion(k, pos, decoys) ==
    [description |-> descriptions[k][1],
     correct_answer |-> k,
     choices |-> [x \in 1..NumChoices |->
                    IF x = pos THEN k
                    ELSE decoys[IF x < pos THEN x ELSE x - 1]]]

\* where the shuffles explored put the correct titles: round k has its title
\* at position ((base + k * step) mod 4) + 1, so every position occurs in
\* every round, in lists that keep one position and in lists that vary it
Positions ==
    {[k \in 1..NumQuestions |-> ((base + k * step) % NumChoices) + 1] :
        base \in 0..(NumChoices - 1), step \in 0..(NumChoices - 1)}

\* Lists create_questions returns: 5 questions with 5 different correct
\* answers, the correct answer once among the 4 choices.
ReturnedLists ==
    {[k \in 1..NumQuestions |-> ReturnedQuestion(k, pos[k], decoys)] :
        pos \in Positions, decoys \in DecoyLists}

\* an answer handler that counts every answer as correct
ScoredAlways(score, is_correct) == score + 1

\* lines 292-293: SCORE is written only for a correct answer
Scored(score, is_correct) == IF is_correct THEN score + 1 ELSE score

Served(route, choice_idx, status) ==
    last_request' = [route |-> route, choice_idx |-> choice_idx, status |-> status]

\* a new browser session: the dict is empty, nothing was requested yet
InitSession ==
    /\ QuestionsOff
    /\ CleanOff
    /\ DriverOff
    /\ session_keys = {}
    /\ CURRENT_QUESTION_IDX = 0
    /\ SCORE = 0
    /\ QUESTIONS = <<>>
    /\ last_request = [route |-> "", choice_idx |-> 0, status |-> ""]

\* GET /: session.clear()
Home ==
    /\ last_request.route # "off"
    /\ session_keys' = {}
    /\ CURRENT_QUESTION_IDX' = 0
    /\ SCORE' = 0
    /\ QUESTIONS' = <<>>
    /\ Served("/", 0, "ok")
    /\ UNCHANGED <<qvars, cvars, dvars>>

\* GET /generate_questions: create_questions returns a list and the three
\* keys are written, or it raises before the session is touched
GenerateQuestions ==
    /\ last_request.route # "off"
    /\ \/ /\ \E questions \in ReturnedLists : QUESTIONS' = questions
          /\ CURRENT_QUESTION_IDX' = 0
          /\ SCORE' = 0
          /\ session_keys' = session_keys \cup {"CURRENT_QUESTION_IDX", "SCORE", "QUESTIONS"}
          /\ Served("/generate_questions", 0, "ok")
       \/ /\ Served("/generate_questions", 0, "error")
          /\ UNCHANGED <<session_keys, CURRENT_QUESTION_IDX, SCORE, QUESTIONS>>
    /\ UNCHANGED <<qvars, cvars, dvars>>

\* GET /question: reads the session, writes nothing
QuestionGet ==
    /\ last_request.route # "off"
    /\ LET q_idx == SessionGet("CURRENT_QUESTION_IDX", CURRENT_QUESTION_IDX)
       IN Served("/question", 0,
                 IF "QUESTIONS" \notin session_keys THEN "KeyError"
                 ELSE IF ~InRange(QUESTIONS, q_idx) THEN "IndexError"
                 ELSE "ok")
    /\ UNCHANGED <<session_keys, CURRENT_QUESTION_IDX, SCORE, QUESTIONS, qvars, cvars, dvars>>

\* POST /answer: both list accesses (lines 285 and 288) come before the first
\* write, so a request that raises leaves the session as it was
AnswerPost ==
    /\ last_request.route # "off"
    /\ \E choice_idx \in (-MaxChoiceIdx)..MaxChoiceIdx :
         LET q_idx == SessionGet("CURRENT_QUESTION_IDX", CURRENT_QUESTION_IDX)
         IN IF "QUESTIONS" \notin session_keys
            THEN /\ Served("/answer", choice_idx, "KeyError")
                 /\ UNCHANGED <<session_keys, CURRENT_QUESTION_IDX, SCORE, QUESTIONS>>
            ELSE IF ~InRange(QUESTIONS, q_idx)
            THEN /\ Served("/answer", choice_idx, "IndexError")
                 /\ UNCHANGED <<session_keys, CURRENT_QUESTION_IDX, SCORE, QUESTIONS>>
            ELSE LET q == Item(QUESTIONS, q_idx)
                 IN IF ~InRange(q.choices, choice_idx)
                    THEN /\ Served("/answer", choice_idx, "IndexError")
                         /\ UNCHANGED <<session_keys, CURRENT_QUESTION_IDX, SCORE, QUESTIONS>>
                    ELSE LET chosen_answer == Item(q.choices, choice_idx)
                             is_correct == (chosen_answer = q.correct_answer)
                         IN /\ SCORE' = Scored(SessionGet("SCORE", SCORE), is_correct)
                            /\ CURRENT_QUESTION_IDX' = q_idx + 1
                            /\ session_keys' =
                                 session_keys \cup {"CURRENT_QUESTION_IDX"}
                                     \cup (IF is_correct THEN {"SCORE"} ELSE {})
                            /\ Served("/answer", choice_idx, "ok")
                            /\ UNCHANGED QUESTIONS
    /\ UNCHANGED <<qvars, cvars, dvars>>

\* GET /results: reads SCORE, writes nothing
Results ==
    /\ last_request.route # "off"
    /\ Served("/results", 0, "ok")
    /\ UNCHANGED <<session_keys, CURRENT_QUESTION_IDX, SCORE, QUESTIONS, qvars, cvars, dvars>>

NextSession == Home \/ GenerateQuestions \/ QuestionGet \/ AnswerPost \/ Results

SpecSession == InitSession /\ [][NextSession]_vars

(***************************************************************************)
(* Properties of the quiz session                                          *)
(***************************************************************************)

\* a quiz was started on the session and not cleared since
Started == "QUESTIONS" \in session_keys

C11_Bounds ==
    Started => /\ 0 <= SCORE
               /\ SCORE <= CURRENT_QUESTION_IDX
               /\ CURRENT_QUESTION_IDX <= NumQuestions

C11_AnswerStep ==
    (Started /\ last_request'.route = "/answer") =>
        LET choice_idx == last_request'.choice_idx
        IN /\ last_request'.status = "ok" =>
                LET q == Item(QUESTIONS, CURRENT_QUESTION_IDX)
                IN /\ CURRENT_QUESTION_IDX' = CURRENT_QUESTION_IDX + 1
                   /\ SCORE' = SCORE + (IF Item(q.choices, choice_idx) = q.correct_answer
                                        THEN 1 ELSE 0)
           /\ (CURRENT_QUESTION_IDX = NumQuestions \/ choice_idx >= NumChoices) =>
                /\ last_request'.status # "ok"
                /\ UNCHANGED <<SCORE, CURRENT_QUESTION_IDX>>

\* C11: on a session with a started quiz, under any sequence of requests,
\* 0 <= SCORE <= CURRENT_QUESTION_IDX <= 5 in every state; every successful
\* POST /answer adds exactly 1 to CURRENT_QUESTION_IDX and adds 1 to SCORE when
\* the chosen choice equals correct_answer and 0 otherwise; a POST /answer with
\* CURRENT_QUESTION_IDX already 5, or with a choice index of 4 or more, fails
\* and leaves SCORE and CURRENT_QUESTION_IDX as they were.
C11_ScoreFollowsAnswers == []C11_Bounds /\ [][C11_AnswerStep]_vars

\* a quiz answered to its end with right and wrong answers, then one more
\* POST /answer, which was refused
C11_AnswerAfterLastRefused ==
    /\ Started
    /\ last_request.route = "/answer"
    /\ last_request.status = "IndexError"
    /\ CURRENT_QUESTION_IDX = NumQuestions
    /\ 0 < SCORE
    /\ SCORE < NumQuestions

(***************************************************************************)
(* The whole repository: one of the four pieces runs.                      *)
(***************************************************************************)
Init == InitQuestions \/ InitSession \/ InitClean \/ InitDriver

Next == NextQuestions \/ NextSession \/ NextClean \/ NextDriver

Spec == Init /\ [][Next]_vars

(***************************************************************************)
(* Properties of the batch driver                                          *)
(***************************************************************************)

\* the titles that held fewer than 5 descriptions when the run started
Lacking(f) == {t \in Titles : t \notin DOMAIN f.table \/ Len(f.table[t]) < DescPerGame}

\* C8: in one run, the service is called for exactly the catalog games that
\* held fewer than 5 stored descriptions when the run started.
C8_CalledIffLacking ==
    dpc = "finished" => called = Lacking(initial_file)

\* the calls of the current game that returned a description
Successes == Cardinality({k \in 1..Len(outcomes) : outcomes[k] = "ok"})

\* the fallback results in a row that end the calls of the current game
RECURSIVE TrailingFallbacks(_)
TrailingFallbacks(o) ==
    IF o # <<>> /\ o[Len(o)] = "fallback"
    THEN 1 + TrailingFallbacks(SubSeq(o, 1, Len(o) - 1))
    ELSE 0

\* 5 descriptions are collected, or the latest 3 results were fallbacks
LoopOver == Successes = DescPerGame \/ TrailingFallbacks(outcomes) = max_retries

C9_LoopInvariant ==
    /\ dpc = "collect" => ~LoopOver
    /\ dpc \in {"save", "dump"} => LoopOver
    /\ dpc \in {"collect", "save", "dump"} => Len(game_descriptions) = Successes
    /\ dpc = "dump" => /\ game_title \in DOMAIN driver_descriptions
                       /\ driver_descriptions[game_title] = game_descriptions
    /\ dpc = "finished" => Titles \subseteq DOMAIN file.table

\* C9: whatever the service answers, the collection loop of a game goes on
\* while fewer than 5 descriptions are collected and the latest 3 results are
\* not all fallbacks, and is left as soon as one of the two holds; the list, of
\* fewer than 5 entries in the second case, is stored under the title; every
\* collection loop ends and the run reaches its end with every title stored.
C9_CollectionTerminates ==
    /\ []C9_LoopInvariant
    /\ (dpc = "collect") ~> (dpc = "dump")
    /\ <>(dpc = "finished")

\* the first game was given up with fewer than 5 descriptions after
\* successes and fallbacks, and the driver is collecting for the second
C9_GaveUpAndWentOn ==
    /\ dpc = "collect"
    /\ game_idx = 2
    /\ DriverGames[1].game \in called
    /\ Len(driver_descriptions[DriverGames[1].game]) \in 1..(DescPerGame - 1)
    /\ Len(outcomes) >= 1

\* C10: whenever the driver is killed, the file on disk can be loaded (it is
\* a whole table, or absent before the first save) and holds every game
\* completed before the kill.
C10_KillLeavesTable ==
    dpc = "killed" => /\ file.state # "truncated"
                      /\ completed \subseteq DOMAIN file.table

====
